---- MODULE Spec2Model ----
(***************************************************************************)
(* whisper-to-talk: the background transcription server                   *)
(* (src/transcription_server_standalone.py, src/transcription_server.py). *)
(*                                                                         *)
(* Two specifications over one set of variables:                           *)
(*   Spec       the process lifecycle: `start` and `stop` invocations of   *)
(*              main(), start_server, stop_server, the PID file and the    *)
(*              socket path, SIGTERM and SIGINT;                           *)
(*   ServeSpec  one running server and its handler threads                 *)
(*              (handle_client, transcribe_file).                          *)
(***************************************************************************)
EXTENDS Integers, Sequences, FiniteSets, TLC

(***************************************************************************)
(* Bounds                                                                  *)
(***************************************************************************)
NumProcs == 2

MaxConns == 2

(***************************************************************************)
(* Processes and the two well-known files                                  *)
(***************************************************************************)
\* OS processes that run main(); a process's number is its PID.
Procs == 1..NumProcs

\* The PID of an instance that crashed before the model starts: never alive.
StalePid == 0

\* "No such file" (FileNotFoundError) / "no value" for the two paths and `pid`.
NoFile == -1

VARIABLES
    pc,           \* pc[p]: where process p stands in main()
    pid,          \* pid[p]: main's local `pid`, read from the PID file
    running,      \* running[p]: self.running
    socket,       \* socket[p]: self.socket: "none", "open" (listening), "closed"
    model,        \* model[p]: self.model is loaded
    PID_FILE,     \* contents of /tmp/whisper_server.pid, or NoFile
    SOCKET_PATH,  \* owner of the socket file at /tmp/whisper_transcription.sock, or NoFile
    shutdownSig,  \* shutdownSig[p]: the signal p received while running ("none" if none)
    hpc,          \* hpc[c]: where the handler thread of connection c stands
    req,          \* req[c]: the request payload received on c
    resp,         \* resp[c]: `response` / `result` computed by the handler
    connected,    \* connected[c]: the client end of c is still open
    sent,         \* sent[c]: the responses written to c by conn.sendall
    closed,       \* closed[c]: conn.close() was called
    invoked,      \* invoked[c]: self.model.transcribe was called for c
    impl,         \* which server file runs: "standalone" or "webui"
    recording_file, \* /tmp/whisper_recording exists
    status_file,  \* contents of /tmp/whisper_status.json
    now,          \* time.time(), in whole seconds
    status,       \* what get_current_status returned for the present files and
                  \* time ("none": not called since they changed)
    texts,        \* a text and the results of clean_transcription_text applied to it
    accept_err    \* accept_err[p]: what the accept loop's except clause has done
                  \* so far: "logged" (logger.error) and/or "swallowed"

lifeVars == <<pc, pid, running, socket, model, PID_FILE, SOCKET_PATH, shutdownSig>>

connVars == <<hpc, req, resp, connected, sent, closed, invoked, impl>>

readerVars == <<recording_file, status_file, now, status>>

cleanVars == <<texts>>

loopVars == <<accept_err>>

vars == <<pc, pid, running, socket, model, PID_FILE, SOCKET_PATH, shutdownSig,
          hpc, req, resp, connected, sent, closed, invoked, impl,
          recording_file, status_file, now, status, texts, accept_err>>

\* Accepted connections (one handler thread each).
Conns == 1..MaxConns

\* Positions at which a process no longer exists.
Ended == {"stop_returned", "stop_crashed", "refused", "exit_fail", "crashed",
          "stopped", "killed", "interrupted", "stopped_again"}

\* os.kill(q, 0) succeeds: q is a process that was launched and has not ended.
Alive(q) == q \in Procs /\ pc[q] \notin Ended \cup {"new"}

\* Positions of a process running the server (`start`) side of main().
StartPcs == {"start_exists", "start_read", "start_probe", "start_unlink",
             "init_model", "ss_unlink", "ss_bind", "ss_writepid", "ss_run",
             "accept", "stop_server", "st_unlink_sock", "st_unlink_pid"}

\* Positions inside main's try block around server.start_server().
InTry == {"ss_unlink", "ss_bind", "ss_writepid", "ss_run", "accept"}

(***************************************************************************)
(* Init: no process launched yet; a crashed earlier instance may have left *)
(* its PID file and/or its socket file behind.                             *)
(***************************************************************************)
\* No request received yet / no response computed yet.
NoReq == [kind |-> "none", action |-> "none", file |-> "none"]

NoResp == [none |-> TRUE]

\* The two server implementations of the repository.
Impls == {"standalone", "webui"}

ConnInit ==
    /\ hpc = [c \in Conns |-> "idle"]
    /\ req = [c \in Conns |-> NoReq]
    /\ resp = [c \in Conns |-> NoResp]
    /\ connected = [c \in Conns |-> TRUE]
    /\ sent = [c \in Conns |-> << >>]
    /\ closed = [c \in Conns |-> FALSE]
    /\ invoked = [c \in Conns |-> FALSE]

\* time.time() when the model starts: seconds since the epoch, far above the
\* staleness threshold (so a record without timestamp, read as 0, is stale).
Boot == 100

\* /tmp/whisper_status.json: absent; or what json.load makes of it:
\*   "garbage"    json.load raises JSONDecodeError;
\*   "nonobject"  JSON that is not an object (a list, a string, a number):
\*                status_data.get raises AttributeError;
\*   "badstamp"   a JSON object whose `timestamp` is not a number:
\*                time.time() - last_update raises TypeError;
\*   "object"     a JSON object; state "none" = no `state` key, timestamp 0 =
\*                no `timestamp` key (status_data.get('timestamp', 0)).
AbsentStatus == [kind |-> "absent", state |-> "none", timestamp |-> 0]

\* The status reader has not run: no marker, no status file.
ReaderInit ==
    /\ recording_file = FALSE
    /\ status_file = AbsentStatus
    /\ now = Boot
    /\ status = "none"

\* The sanitizer has not run.
CleanInit == texts = << >>

\* No accept loop has caught an exception.
AcceptInit == accept_err = [p \in Procs |-> {}]

Init ==
    /\ pc = [p \in Procs |-> "new"]
    /\ pid = [p \in Procs |-> NoFile]
    /\ running = [p \in Procs |-> FALSE]
    /\ socket = [p \in Procs |-> "none"]
    /\ model = [p \in Procs |-> FALSE]
    /\ PID_FILE \in {NoFile, StalePid}
    /\ SOCKET_PATH \in {NoFile, StalePid}
    /\ shutdownSig = [p \in Procs |-> "none"]
    /\ impl = "standalone"
    /\ ConnInit
    /\ ReaderInit
    /\ AcceptInit
    /\ CleanInit

(***************************************************************************)
(* main(): a process is launched as `start` (no argument) or `stop`.       *)
(***************************************************************************)
Launch(p) ==
    /\ pc[p] = "new"
    /\ \E first \in {"start_exists", "stop_exists"} :
          pc' = [pc EXCEPT ![p] = first]
    /\ UNCHANGED <<pid, running, socket, model, PID_FILE, SOCKET_PATH, shutdownSig>>
    /\ UNCHANGED <<connVars, readerVars, cleanVars, loopVars>>

(***************************************************************************)
(* Signals. SIGTERM has its default disposition (no handler is installed): *)
(* the process ends at once and runs no finally block. SIGINT raises       *)
(* KeyboardInterrupt in the main thread: inside main's try block it is     *)
(* caught and the finally block runs stop_server; anywhere else it ends    *)
(* the process (initialize_model's `except Exception` does not catch it).   *)
(***************************************************************************)
\* The position of q after SIGTERM.
AfterSIGTERM(q) == "killed"

\* The position of q after SIGINT.
AfterSIGINT(q) == IF pc[q] \in InTry THEN "stop_server" ELSE "interrupted"

\* The signal recorded for q: only one received while q is running counts.
NoteSignal(q, sig) ==
    IF running[q] /\ pc[q] = "accept" /\ shutdownSig[q] = "none"
    THEN [shutdownSig EXCEPT ![q] = sig]
    ELSE shutdownSig

\* os.kill(pid, 15) from anywhere outside the model (kill, a service manager).
SIGTERM(q) ==
    /\ Alive(q)
    /\ pc[q] \in StartPcs
    /\ pc' = [pc EXCEPT ![q] = AfterSIGTERM(q)]
    /\ shutdownSig' = NoteSignal(q, "TERM")
    /\ UNCHANGED <<pid, running, socket, model, PID_FILE, SOCKET_PATH>>
    /\ UNCHANGED <<connVars, readerVars, cleanVars, loopVars>>

\* Ctrl-C on the server's terminal.
SIGINT(q) ==
    /\ Alive(q)
    /\ pc[q] \in StartPcs
    /\ pc' = [pc EXCEPT ![q] = AfterSIGINT(q)]
    /\ shutdownSig' = NoteSignal(q, "INT")
    /\ UNCHANGED <<pid, running, socket, model, PID_FILE, SOCKET_PATH>>
    /\ UNCHANGED <<connVars, readerVars, cleanVars, loopVars>>

(***************************************************************************)
(* main(), `stop` branch                                                   *)
(***************************************************************************)
\* if os.path.exists(PID_FILE): ... else: print("Server not running"); return
main_stop_exists(p) ==
    /\ pc[p] = "stop_exists"
    /\ pc' = [pc EXCEPT ![p] = IF PID_FILE = NoFile THEN "stop_returned" ELSE "stop_read"]
    /\ UNCHANGED <<pid, running, socket, model, PID_FILE, SOCKET_PATH, shutdownSig>>
    /\ UNCHANGED <<connVars, readerVars, cleanVars, loopVars>>

\* with open(PID_FILE) as f: pid = int(f.read().strip())
main_stop_read(p) ==
    /\ pc[p] = "stop_read"
    /\ IF PID_FILE = NoFile
       THEN /\ pc' = [pc EXCEPT ![p] = "stop_crashed"]
            /\ pid' = pid
       ELSE /\ pc' = [pc EXCEPT ![p] = "stop_kill"]
            /\ pid' = [pid EXCEPT ![p] = PID_FILE]
    /\ UNCHANGED <<running, socket, model, PID_FILE, SOCKET_PATH, shutdownSig>>
    /\ UNCHANGED <<connVars, readerVars, cleanVars, loopVars>>

\* try: os.kill(pid, 15); print("Stopped server") -- the PID file is left alone
\* except ProcessLookupError: print("Server not running"); os.unlink(PID_FILE)
main_stop_kill(p) ==
    /\ pc[p] = "stop_kill"
    /\ IF Alive(pid[p])
       THEN /\ pc' = [pc EXCEPT ![p] = "stop_returned", ![pid[p]] = AfterSIGTERM(pid[p])]
            /\ shutdownSig' = NoteSignal(pid[p], "TERM")
       ELSE /\ pc' = [pc EXCEPT ![p] = "stop_unlink"]
            /\ shutdownSig' = shutdownSig
    /\ UNCHANGED <<pid, running, socket, model, PID_FILE, SOCKET_PATH>>
    /\ UNCHANGED <<connVars, readerVars, cleanVars, loopVars>>

\* os.unlink(PID_FILE) in the except branch; FileNotFoundError is not caught
main_stop_unlink(p) ==
    /\ pc[p] = "stop_unlink"
    /\ IF PID_FILE = NoFile
       THEN /\ pc' = [pc EXCEPT ![p] = "stop_crashed"]
            /\ PID_FILE' = PID_FILE
       ELSE /\ pc' = [pc EXCEPT ![p] = "stop_returned"]
            /\ PID_FILE' = NoFile
    /\ UNCHANGED <<pid, running, socket, model, SOCKET_PATH, shutdownSig>>
    /\ UNCHANGED <<connVars, readerVars, cleanVars, loopVars>>

(***************************************************************************)
(* main(), `start` branch: the already-running check                       *)
(***************************************************************************)
\* if os.path.exists(PID_FILE):
main_start_exists(p) ==
    /\ pc[p] = "start_exists"
    /\ pc' = [pc EXCEPT ![p] = IF PID_FILE = NoFile THEN "init_model" ELSE "start_read"]
    /\ UNCHANGED <<pid, running, socket, model, PID_FILE, SOCKET_PATH, shutdownSig>>
    /\ UNCHANGED <<connVars, readerVars, cleanVars, loopVars>>

\* with open(PID_FILE) as f: pid = int(f.read().strip())
main_start_read(p) ==
    /\ pc[p] = "start_read"
    /\ IF PID_FILE = NoFile
       THEN /\ pc' = [pc EXCEPT ![p] = "crashed"]
            /\ pid' = pid
       ELSE /\ pc' = [pc EXCEPT ![p] = "start_probe"]
            /\ pid' = [pid EXCEPT ![p] = PID_FILE]
    /\ UNCHANGED <<running, socket, model, PID_FILE, SOCKET_PATH, shutdownSig>>
    /\ UNCHANGED <<connVars, readerVars, cleanVars, loopVars>>

\* A faulty main_start_probe: the liveness probe's two outcomes swapped.
main_start_probe_swapped(p) ==
    /\ pc[p] = "start_probe"
    /\ pc' = [pc EXCEPT ![p] = IF Alive(pid[p]) THEN "start_unlink" ELSE "refused"]
    /\ UNCHANGED <<pid, running, socket, model, PID_FILE, SOCKET_PATH, shutdownSig>>
    /\ UNCHANGED <<connVars, readerVars, cleanVars, loopVars>>

\* try: os.kill(pid, 0); print("Server already running"); return
\* except ProcessLookupError: (next step) os.unlink(PID_FILE)
main_start_probe(p) ==
    /\ pc[p] = "start_probe"
    /\ pc' = [pc EXCEPT ![p] = IF Alive(pid[p]) THEN "refused" ELSE "start_unlink"]
    /\ UNCHANGED <<pid, running, socket, model, PID_FILE, SOCKET_PATH, shutdownSig>>
    /\ UNCHANGED <<connVars, readerVars, cleanVars, loopVars>>

\* os.unlink(PID_FILE) of the stale PID file; FileNotFoundError is not caught
main_start_unlink(p) ==
    /\ pc[p] = "start_unlink"
    /\ IF PID_FILE = NoFile
       THEN /\ pc' = [pc EXCEPT ![p] = "crashed"]
            /\ PID_FILE' = PID_FILE
       ELSE /\ pc' = [pc EXCEPT ![p] = "init_model"]
            /\ PID_FILE' = NoFile
    /\ UNCHANGED <<pid, running, socket, model, SOCKET_PATH, shutdownSig>>
    /\ UNCHANGED <<connVars, readerVars, cleanVars, loopVars>>

\* A faulty initialize_model: main ignores the return value and goes on to
\* start_server even when the model failed to load.
initialize_model_unchecked(p) ==
    /\ pc[p] = "init_model"
    /\ \E loaded \in BOOLEAN :
          /\ model' = [model EXCEPT ![p] = loaded]
          /\ pc' = [pc EXCEPT ![p] = "ss_unlink"]
    /\ UNCHANGED <<pid, running, socket, PID_FILE, SOCKET_PATH, shutdownSig>>
    /\ UNCHANGED <<connVars, readerVars, cleanVars, loopVars>>

\* server = StandaloneTranscriptionServer()
\* if not server.initialize_model(): sys.exit(1)
initialize_model(p) ==
    /\ pc[p] = "init_model"
    /\ \E loaded \in BOOLEAN :
          /\ model' = [model EXCEPT ![p] = loaded]
          /\ pc' = [pc EXCEPT ![p] = IF loaded THEN "ss_unlink" ELSE "exit_fail"]
    /\ UNCHANGED <<pid, running, socket, PID_FILE, SOCKET_PATH, shutdownSig>>
    /\ UNCHANGED <<connVars, readerVars, cleanVars, loopVars>>

(***************************************************************************)
(* start_server()                                                          *)
(***************************************************************************)
\* try: os.unlink(SOCKET_PATH) except FileNotFoundError: pass
start_server_unlink(p) ==
    /\ pc[p] = "ss_unlink"
    /\ SOCKET_PATH' = NoFile
    /\ pc' = [pc EXCEPT ![p] = "ss_bind"]
    /\ UNCHANGED <<pid, running, socket, model, PID_FILE, shutdownSig>>
    /\ UNCHANGED <<connVars, readerVars, cleanVars, loopVars>>

\* self.socket = socket.socket(...); self.socket.bind(SOCKET_PATH); listen(5)
\* bind raises OSError (address in use) when a file is at the path again: the
\* exception leaves start_server and main's finally block runs stop_server.
start_server_bind(p) ==
    /\ pc[p] = "ss_bind"
    /\ IF SOCKET_PATH = NoFile
       THEN /\ SOCKET_PATH' = p
            /\ socket' = [socket EXCEPT ![p] = "open"]
            /\ pc' = [pc EXCEPT ![p] = "ss_writepid"]
       ELSE /\ SOCKET_PATH' = SOCKET_PATH
            /\ socket' = [socket EXCEPT ![p] = "unbound"]
            /\ pc' = [pc EXCEPT ![p] = "stop_server"]
    /\ UNCHANGED <<pid, running, model, PID_FILE, shutdownSig>>
    /\ UNCHANGED <<connVars, readerVars, cleanVars, loopVars>>

\* with open(PID_FILE, 'w') as f: f.write(str(os.getpid()))
start_server_writepid(p) ==
    /\ pc[p] = "ss_writepid"
    /\ PID_FILE' = p
    /\ pc' = [pc EXCEPT ![p] = "ss_run"]
    /\ UNCHANGED <<pid, running, socket, model, SOCKET_PATH, shutdownSig>>
    /\ UNCHANGED <<connVars, readerVars, cleanVars, loopVars>>

\* self.running = True, then the accept loop (blocked in self.socket.accept())
start_server_run(p) ==
    /\ pc[p] = "ss_run"
    /\ running' = [running EXCEPT ![p] = TRUE]
    /\ pc' = [pc EXCEPT ![p] = "accept"]
    /\ UNCHANGED <<pid, socket, model, PID_FILE, SOCKET_PATH, shutdownSig>>
    /\ UNCHANGED <<connVars, readerVars, cleanVars, loopVars>>

(***************************************************************************)
(* stop_server(), run by main's finally block                              *)
(***************************************************************************)
\* self.running = False; if self.socket: self.socket.close()
stop_server(p) ==
    /\ pc[p] = "stop_server"
    /\ running' = [running EXCEPT ![p] = FALSE]
    /\ socket' = [socket EXCEPT ![p] = IF socket[p] = "none" THEN "none" ELSE "closed"]
    /\ pc' = [pc EXCEPT ![p] = "st_unlink_sock"]
    /\ UNCHANGED <<pid, model, PID_FILE, SOCKET_PATH, shutdownSig>>
    /\ UNCHANGED <<connVars, readerVars, cleanVars, loopVars>>

\* try: os.unlink(SOCKET_PATH) ... except FileNotFoundError: pass
\* When the socket file is missing the PID file's unlink is skipped as well.
stop_server_unlink_sock(p) ==
    /\ pc[p] = "st_unlink_sock"
    /\ pc' = [pc EXCEPT ![p] = IF SOCKET_PATH = NoFile THEN "stopped" ELSE "st_unlink_pid"]
    /\ SOCKET_PATH' = NoFile
    /\ UNCHANGED <<pid, running, socket, model, PID_FILE, shutdownSig>>
    /\ UNCHANGED <<connVars, readerVars, cleanVars, loopVars>>

\* os.unlink(PID_FILE) ... except FileNotFoundError: pass
stop_server_unlink_pid(p) ==
    /\ pc[p] = "st_unlink_pid"
    /\ PID_FILE' = NoFile
    /\ pc' = [pc EXCEPT ![p] = "stopped"]
    /\ UNCHANGED <<pid, running, socket, model, SOCKET_PATH, shutdownSig>>
    /\ UNCHANGED <<connVars, readerVars, cleanVars, loopVars>>

(***************************************************************************)
(* The lifecycle specification                                             *)
(***************************************************************************)
Next ==
    \E p \in Procs :
        \/ Launch(p)
        \/ SIGTERM(p)
        \/ SIGINT(p)
        \/ main_stop_exists(p)
        \/ main_stop_read(p)
        \/ main_stop_kill(p)
        \/ main_stop_unlink(p)
        \/ main_start_exists(p)
        \/ main_start_read(p)
        \/ main_start_probe(p)
        \/ main_start_unlink(p)
        \/ initialize_model(p)
        \/ start_server_unlink(p)
        \/ start_server_bind(p)
        \/ start_server_writepid(p)
        \/ start_server_run(p)
        \/ stop_server(p)
        \/ stop_server_unlink_sock(p)
        \/ stop_server_unlink_pid(p)

Spec == Init /\ [][Next]_vars

(***************************************************************************)
(* stop_server() called a second time.  main calls it once, from its       *)
(* finally block; the specification below adds a caller that calls it      *)
(* again after it has completed (position "stopped"), before the process   *)
(* is gone, while the other processes go on as in Spec.                    *)
(***************************************************************************)
\* self.running = False; if self.socket: self.socket.close()  (second call)
stop_server_again(p) ==
    /\ pc[p] = "stopped"
    /\ running' = [running EXCEPT ![p] = FALSE]
    /\ socket' = [socket EXCEPT ![p] = IF socket[p] = "none" THEN "none" ELSE "closed"]
    /\ pc' = [pc EXCEPT ![p] = "again_unlink_sock"]
    /\ UNCHANGED <<pid, model, PID_FILE, SOCKET_PATH, shutdownSig>>
    /\ UNCHANGED <<connVars, readerVars, cleanVars, loopVars>>

\* try: os.unlink(SOCKET_PATH) ... except FileNotFoundError: pass  (second call)
stop_server_again_unlink_sock(p) ==
    /\ pc[p] = "again_unlink_sock"
    /\ pc' = [pc EXCEPT ![p] = IF SOCKET_PATH = NoFile THEN "stopped_again"
                                ELSE "again_unlink_pid"]
    /\ SOCKET_PATH' = NoFile
    /\ UNCHANGED <<pid, running, socket, model, PID_FILE, shutdownSig>>
    /\ UNCHANGED <<connVars, readerVars, cleanVars, loopVars>>

\* os.unlink(PID_FILE)  (second call)
stop_server_again_unlink_pid(p) ==
    /\ pc[p] = "again_unlink_pid"
    /\ PID_FILE' = NoFile
    /\ pc' = [pc EXCEPT ![p] = "stopped_again"]
    /\ UNCHANGED <<pid, running, socket, model, SOCKET_PATH, shutdownSig>>
    /\ UNCHANGED <<connVars, readerVars, cleanVars, loopVars>>

StopNext ==
    \/ Next
    \/ \E p \in Procs :
          \/ stop_server_again(p)
          \/ stop_server_again_unlink_sock(p)
          \/ stop_server_again_unlink_pid(p)

StopSpec == Init /\ [][StopNext]_vars

(***************************************************************************)
(* Request handling: handle_client and transcribe_file.                    *)
(* One handler thread per accepted connection; the threads share           *)
(* self.model and nothing else, and the code takes no lock anywhere.       *)
(***************************************************************************)
\* Audio paths a request may name, with os.path.exists and os.path.getsize.
Files == {"missing.wav", "empty.wav", "small.wav", "edge.wav"}

Exists(f) == f # "missing.wav"

Size(f) == CASE f = "empty.wav" -> 0
             [] f = "small.wav" -> 999
             [] f = "edge.wav" -> 1000
             [] OTHER -> 0

\* if file_size < 1000
SmallFileThreshold == 1000

\* What conn.recv(1024).decode('utf-8') and json.loads make of the payload:
\*   "notjson"    decode or json.loads raises (empty, garbage, bad UTF-8);
\*   "notobject"  valid JSON that is no object (request.get raises);
\*   "object"     a JSON object; action/file "none" = the key is missing.
Payloads ==
    {[kind |-> k, action |-> "none", file |-> "none"] : k \in {"notjson", "notobject"}}
    \cup {[kind |-> "object", action |-> a, file |-> "none"] :
              a \in {"ping", "info", "bogus", "none"}}
    \cup {[kind |-> "object", action |-> "transcribe", file |-> f] :
              f \in Files \cup {"none"}}

\* Responses (JSON objects) as records.
Ready == [status |-> "ready"]

UnknownAction == [error |-> "Unknown action"]

NotFound == [error |-> "Audio file not found"]

SmallResult == [text |-> "", duration |-> 0]

ModelInfo == [model |-> "large-v3-turbo", device |-> "cpu", compute_type |-> "float32"]

\* json.dumps({"error": str(e)}) of the exception handler
ErrorResponse == [error |-> "exception"]

\* A faulty transcribe_file_guard: the os.path.exists check left out.
transcribe_file_guard_noexists(f) ==
    IF Size(f) < SmallFileThreshold THEN SmallResult ELSE NoResp

\* A faulty transcribe_file_guard: the small-file guard left out.
transcribe_file_guard_nosize(f) ==
    IF ~Exists(f) THEN NotFound ELSE NoResp

\* transcribe_file up to the model call: the result it returns early, or NoResp
\* when it goes on to self.model.transcribe.
transcribe_file_guard(f) ==
    IF ~Exists(f) THEN NotFound
    ELSE IF Size(f) < SmallFileThreshold THEN SmallResult
    ELSE NoResp

\* What self.model.transcribe and the code after it return, in either server:
\*   text from the segments (cleaned), text "" (no segment; in webui also an
\*   unexpected result format), or an exception caught at `except`.
\* The texts are short (under 20 words and 1000 characters, no digit runs), so
\* clean_transcription_text returns them stripped, that is, unchanged.
ModelResults ==
    {[text |-> "hello world", duration |-> 1],
     [text |-> "", duration |-> 1],
     [error |-> "inference failed"]}

\* A faulty accept: the connection handled inline by the accept loop, so
\* that nothing is accepted until every earlier handler has finished.
accept_inline(c) ==
    /\ hpc[c] = "idle"
    /\ \E p \in Procs : pc[p] = "accept" /\ running[p] /\ socket[p] = "open"
    /\ \A d \in Conns : hpc[d] \in {"idle", "returned", "raised"}
    /\ hpc' = [hpc EXCEPT ![c] = "recv"]
    /\ UNCHANGED <<req, resp, connected, sent, closed, invoked, impl>>
    /\ UNCHANGED <<lifeVars, readerVars, cleanVars, loopVars>>

\* conn, addr = self.socket.accept(); threading.Thread(target=self.handle_client,
\* args=(conn,)).start() -- the loop goes straight back to accept().
accept(c) ==
    /\ hpc[c] = "idle"
    /\ \E p \in Procs : pc[p] = "accept" /\ running[p] /\ socket[p] = "open"
    /\ hpc' = [hpc EXCEPT ![c] = "recv"]
    /\ UNCHANGED <<req, resp, connected, sent, closed, invoked, impl>>
    /\ UNCHANGED <<lifeVars, readerVars, cleanVars, loopVars>>

\* The client closes its end before the handler is done.
Disconnect(c) ==
    /\ hpc[c] \notin {"idle", "returned", "raised"}
    /\ connected[c]
    /\ connected' = [connected EXCEPT ![c] = FALSE]
    /\ UNCHANGED <<hpc, req, resp, sent, closed, invoked, impl>>
    /\ UNCHANGED <<lifeVars, readerVars, cleanVars, loopVars>>

\* The dispatch of handle_client: where the handler goes and the response it
\* has, for request r (<<next position, response>>).
Dispatch(r) ==
    IF r.kind # "object" THEN <<"except", NoResp>>
    ELSE IF r.action = "transcribe" THEN
        IF r.file = "none" THEN <<"except", NoResp>>
        ELSE IF transcribe_file_guard(r.file) = NoResp THEN <<"in_model", NoResp>>
        ELSE <<"send", transcribe_file_guard(r.file)>>
    ELSE IF r.action = "ping" THEN <<"send", Ready>>
    ELSE IF r.action = "info" /\ impl = "standalone" THEN <<"send", ModelInfo>>
    ELSE <<"send", UnknownAction>>

\* data = conn.recv(1024).decode('utf-8'); request = json.loads(data); the
\* if/elif chain on request.get("action"), and transcribe_file up to the call
\* of self.model.transcribe (os.path.exists(None) raises TypeError).
handle_client_recv(c) ==
    /\ hpc[c] = "recv"
    /\ \E r \in Payloads :
          /\ req' = [req EXCEPT ![c] = r]
          /\ hpc' = [hpc EXCEPT ![c] = Dispatch(r)[1]]
          /\ resp' = [resp EXCEPT ![c] = Dispatch(r)[2]]
          /\ invoked' = [invoked EXCEPT ![c] = (Dispatch(r)[1] = "in_model")]
    /\ UNCHANGED <<connected, sent, closed, impl>>
    /\ UNCHANGED <<lifeVars, readerVars, cleanVars, loopVars>>

\* self.model.transcribe(...) returns, the segments are joined and cleaned
\* (or the exception is caught): result = {"text", "duration"} or {"error"}.
transcribe_file_model(c) ==
    /\ hpc[c] = "in_model"
    /\ \E r \in ModelResults :
          resp' = [resp EXCEPT ![c] = r]
    /\ hpc' = [hpc EXCEPT ![c] = "send"]
    /\ UNCHANGED <<req, connected, sent, closed, invoked, impl>>
    /\ UNCHANGED <<lifeVars, readerVars, cleanVars, loopVars>>

\* A faulty handle_client_send: the error response is written after the
\* normal one as well.
handle_client_send_twice(c) ==
    /\ hpc[c] = "send"
    /\ sent' = [sent EXCEPT ![c] = IF connected[c] THEN Append(@, resp[c]) ELSE @]
    /\ hpc' = [hpc EXCEPT ![c] = "except"]
    /\ UNCHANGED <<req, resp, connected, closed, invoked, impl>>
    /\ UNCHANGED <<lifeVars, readerVars, cleanVars, loopVars>>

\* conn.sendall(response.encode('utf-8')): raises when the client is gone.
handle_client_send(c) ==
    /\ hpc[c] = "send"
    /\ IF connected[c]
       THEN /\ sent' = [sent EXCEPT ![c] = Append(@, resp[c])]
            /\ hpc' = [hpc EXCEPT ![c] = "finally"]
       ELSE /\ sent' = sent
            /\ hpc' = [hpc EXCEPT ![c] = "except"]
    /\ UNCHANGED <<req, resp, connected, closed, invoked, impl>>
    /\ UNCHANGED <<lifeVars, readerVars, cleanVars, loopVars>>

\* A faulty handle_client_except: the exception is swallowed, no error
\* response is written.
handle_client_except_silent(c) ==
    /\ hpc[c] = "except"
    /\ hpc' = [hpc EXCEPT ![c] = "finally"]
    /\ UNCHANGED <<req, resp, connected, sent, closed, invoked, impl>>
    /\ UNCHANGED <<lifeVars, readerVars, cleanVars, loopVars>>

\* except Exception as e: conn.sendall(json.dumps({"error": str(e)})): this
\* write is not guarded, so it raises out of the handler when the client is gone.
handle_client_except(c) ==
    /\ hpc[c] = "except"
    /\ IF connected[c]
       THEN /\ sent' = [sent EXCEPT ![c] = Append(@, ErrorResponse)]
            /\ hpc' = [hpc EXCEPT ![c] = "finally"]
       ELSE /\ sent' = sent
            /\ hpc' = [hpc EXCEPT ![c] = "finally_raise"]
    /\ UNCHANGED <<req, resp, connected, closed, invoked, impl>>
    /\ UNCHANGED <<lifeVars, readerVars, cleanVars, loopVars>>

\* finally: conn.close(); then handle_client returns, or the pending
\* exception leaves it.
handle_client_finally(c) ==
    /\ hpc[c] \in {"finally", "finally_raise"}
    /\ closed' = [closed EXCEPT ![c] = TRUE]
    /\ hpc' = [hpc EXCEPT ![c] = IF hpc[c] = "finally" THEN "returned" ELSE "raised"]
    /\ UNCHANGED <<req, resp, connected, sent, invoked, impl>>
    /\ UNCHANGED <<lifeVars, readerVars, cleanVars, loopVars>>

\* One step of the handler thread of c.
handle_client(c) ==
    \/ handle_client_recv(c)
    \/ transcribe_file_model(c)
    \/ handle_client_send(c)
    \/ handle_client_except(c)
    \/ handle_client_finally(c)

(***************************************************************************)
(* The serving specification: process 1 has started (model loaded, socket  *)
(* bound, PID file written, running) and serves connections.               *)
(***************************************************************************)
ServeInit ==
    /\ pc = [p \in Procs |-> IF p = 1 THEN "accept" ELSE "new"]
    /\ pid = [p \in Procs |-> NoFile]
    /\ running = [p \in Procs |-> p = 1]
    /\ socket = [p \in Procs |-> IF p = 1 THEN "open" ELSE "none"]
    /\ model = [p \in Procs |-> p = 1]
    /\ PID_FILE = 1
    /\ SOCKET_PATH = 1
    /\ shutdownSig = [p \in Procs |-> "none"]
    /\ impl \in Impls
    /\ ConnInit
    /\ ReaderInit
    /\ AcceptInit
    /\ CleanInit

ServeNext ==
    \E c \in Conns :
        \/ accept(c)
        \/ Disconnect(c)
        \/ handle_client_recv(c)
        \/ transcribe_file_model(c)
        \/ handle_client_send(c)
        \/ handle_client_except(c)
        \/ handle_client_finally(c)

ServeSpec == ServeInit /\ [][ServeNext]_vars

(***************************************************************************)
(* The accept loop of start_server and its except clause.  accept() or     *)
(* Thread.start() raises an Exception (EMFILE, ECONNABORTED, "can't start  *)
(* new thread"; EBADF once the listening socket is closed).  main() calls  *)
(* stop_server only after start_server has returned or raised; the         *)
(* specification below adds a caller that runs stop_server while the loop  *)
(* is blocked in accept() (a handler run in the main thread, after which   *)
(* accept() is retried), so that the loop meets running = False.           *)
(***************************************************************************)
\* if self.running: logger.error(f"Server error: {e}")
except_clause(p) == IF running[p] THEN "logged" ELSE "swallowed"

\* A faulty loop: any exception ends it.
while_running_break(p) == "stop_server"

\* while self.running: back to accept(), or start_server returns and main's
\* finally block runs stop_server.
while_running(p) == IF running[p] THEN "accept" ELSE "stop_server"

\* conn, addr = self.socket.accept() raises; except Exception as e: ...
accept_error(p) ==
    /\ pc[p] = "accept"
    /\ accept_err' = [accept_err EXCEPT ![p] = @ \cup {except_clause(p)}]
    /\ pc' = [pc EXCEPT ![p] = while_running(p)]
    /\ UNCHANGED <<pid, running, socket, model, PID_FILE, SOCKET_PATH, shutdownSig>>
    /\ UNCHANGED <<connVars, readerVars, cleanVars>>

\* accept() returned connection c but thread.start() raises: no handler runs
\* for c; the except clause and the loop test follow as for accept().
dispatch_error(c) ==
    /\ hpc[c] = "idle"
    /\ \E p \in Procs :
          /\ pc[p] = "accept" /\ running[p] /\ socket[p] = "open"
          /\ accept_err' = [accept_err EXCEPT ![p] = @ \cup {except_clause(p)}]
          /\ pc' = [pc EXCEPT ![p] = while_running(p)]
    /\ hpc' = [hpc EXCEPT ![c] = "undispatched"]
    /\ UNCHANGED <<pid, running, socket, model, PID_FILE, SOCKET_PATH, shutdownSig>>
    /\ UNCHANGED <<req, resp, connected, sent, closed, invoked, impl>>
    /\ UNCHANGED <<readerVars, cleanVars>>

\* stop_server() run to completion while the loop is blocked in accept():
\* self.running = False; self.socket.close(); os.unlink(SOCKET_PATH);
\* os.unlink(PID_FILE) (skipped when the socket file is missing).
stop_server_in_accept(p) ==
    /\ pc[p] = "accept"
    /\ running[p]
    /\ running' = [running EXCEPT ![p] = FALSE]
    /\ socket' = [socket EXCEPT ![p] = IF socket[p] = "none" THEN "none" ELSE "closed"]
    /\ SOCKET_PATH' = NoFile
    /\ PID_FILE' = IF SOCKET_PATH = NoFile THEN PID_FILE ELSE NoFile
    /\ UNCHANGED <<pc, pid, model, shutdownSig>>
    /\ UNCHANGED <<connVars, readerVars, cleanVars, loopVars>>

\* Process 1 is in its accept loop; each of the two files is as its start
\* left it, or was removed since by another instance's stop_server.
LoopInit ==
    /\ pc = [p \in Procs |-> IF p = 1 THEN "accept" ELSE "new"]
    /\ pid = [p \in Procs |-> NoFile]
    /\ running = [p \in Procs |-> p = 1]
    /\ socket = [p \in Procs |-> IF p = 1 THEN "open" ELSE "none"]
    /\ model = [p \in Procs |-> p = 1]
    /\ PID_FILE \in {NoFile, 1}
    /\ SOCKET_PATH \in {NoFile, 1}
    /\ shutdownSig = [p \in Procs |-> "none"]
    /\ impl \in Impls
    /\ ConnInit
    /\ ReaderInit
    /\ AcceptInit
    /\ CleanInit

LoopNext ==
    \/ \E p \in Procs :
          \/ accept_error(p)
          \/ stop_server_in_accept(p)
          \/ SIGINT(p)
          \/ SIGTERM(p)
          \/ stop_server(p)
          \/ stop_server_unlink_sock(p)
          \/ stop_server_unlink_pid(p)
    \/ \E c \in Conns :
          \/ accept(c)
          \/ dispatch_error(c)

LoopSpec == LoopInit /\ [][LoopNext]_vars

(***************************************************************************)
(* The status reader: TranscriberStatus.get_current_status of              *)
(* waybar_status.py, polled while the recording script and the clock       *)
(* change what it reads.  It reads the server's PID file                   *)
(* /tmp/whisper_server.pid, the marker /tmp/whisper_recording and the      *)
(* status record /tmp/whisper_status.json.                                 *)
(***************************************************************************)
\* The clock runs from Boot to Boot + MaxTime.
MaxTime == 7

\* if time.time() - last_update > 5
StaleAfter == 5

\* Values a writer stores under `state`: the keys of self.states, a string
\* that is none of them, or no `state` key at all.
StatusStates == {"idle", "recording", "processing", "error", "bogus", "none"}

\* What a writer can leave in the status file at time t: a record stamped
\* with t, a record without timestamp, a file that is not JSON, JSON that is
\* not an object, or an object whose timestamp is not a number.
StatusRecords(t) ==
    {[kind |-> "object", state |-> s, timestamp |-> u] :
         s \in StatusStates, u \in {0, t}}
    \cup {[kind |-> k, state |-> "none", timestamp |-> 0] :
              k \in {"garbage", "nonobject"}}
    \cup {[kind |-> "badstamp", state |-> s, timestamp |-> 0] : s \in StatusStates}

\* is_server_running: the PID file exists and os.kill(pid, 0) succeeds.
is_server_running == PID_FILE # NoFile /\ Alive(PID_FILE)

\* is_recording: self.recording_file.exists()
is_recording == recording_file

\* A faulty CurrentStatus: the staleness check left out.
CurrentStatus_nostale ==
    IF ~is_server_running THEN "offline"
    ELSE IF is_recording THEN "recording"
    ELSE IF status_file.kind = "nonobject" THEN "raised"
    ELSE IF status_file.kind \in {"absent", "garbage"} THEN "idle"
    ELSE IF status_file.state = "none" THEN "idle"
    ELSE status_file.state

\* get_current_status: offline, recording, then the status file (absent or
\* not JSON: idle; state defaults to 'idle', timestamp to 0).  "raised": an
\* exception that `except (json.JSONDecodeError, FileNotFoundError, KeyError)`
\* does not catch leaves get_current_status.
CurrentStatus ==
    IF ~is_server_running THEN "offline"
    ELSE IF is_recording THEN "recording"
    ELSE IF status_file.kind \in {"nonobject", "badstamp"} THEN "raised"
    ELSE IF status_file.kind \in {"absent", "garbage"} THEN "idle"
    ELSE IF now - status_file.timestamp > StaleAfter THEN "idle"
    ELSE IF status_file.state = "none" THEN "idle"
    ELSE status_file.state

\* One second passes.
Tick ==
    /\ now < Boot + MaxTime
    /\ now' = now + 1
    /\ status' = "none"
    /\ UNCHANGED <<recording_file, status_file>>
    /\ UNCHANGED <<lifeVars, connVars, cleanVars, loopVars>>

\* The recording script writes (or truncates, or removes) the status file.
WriteStatus ==
    /\ status_file' \in StatusRecords(now) \cup {AbsentStatus}
    /\ status_file' # status_file
    /\ status' = "none"
    /\ UNCHANGED <<recording_file, now>>
    /\ UNCHANGED <<lifeVars, connVars, cleanVars, loopVars>>

\* The recording script creates or removes /tmp/whisper_recording.
ToggleRecording ==
    /\ recording_file' = ~recording_file
    /\ status' = "none"
    /\ UNCHANGED <<status_file, now>>
    /\ UNCHANGED <<lifeVars, connVars, cleanVars, loopVars>>

\* status = self.get_current_status()
get_current_status ==
    /\ status = "none"
    /\ status' = CurrentStatus
    /\ UNCHANGED <<recording_file, status_file, now>>
    /\ UNCHANGED <<lifeVars, connVars, cleanVars, loopVars>>

\* Process 1 is a running server; the PID file is absent, stale (a dead
\* process's) or the server's.
StatusInit ==
    /\ pc = [p \in Procs |-> IF p = 1 THEN "accept" ELSE "new"]
    /\ pid = [p \in Procs |-> NoFile]
    /\ running = [p \in Procs |-> p = 1]
    /\ socket = [p \in Procs |-> IF p = 1 THEN "open" ELSE "none"]
    /\ model = [p \in Procs |-> p = 1]
    /\ PID_FILE \in {NoFile, StalePid, 1}
    /\ SOCKET_PATH = 1
    /\ shutdownSig = [p \in Procs |-> "none"]
    /\ impl = "standalone"
    /\ ConnInit
    /\ ReaderInit
    /\ AcceptInit
    /\ CleanInit

StatusNext ==
    \/ Tick
    \/ WriteStatus
    \/ ToggleRecording
    \/ get_current_status

StatusSpec == StatusInit /\ [][StatusNext]_vars

(***************************************************************************)
(* The sanitizer: clean_transcription_text (the same code in both          *)
(* servers).  A text is the sequence of its whitespace-separated words     *)
(* (text.split()); a word is its identity w, its number of characters n,   *)
(* whether it has upper-case letters (uc), whether it is a number followed *)
(* by a comma such as "12," (num), and the number of '.' characters the    *)
(* truncation has appended to it (dots).  ' '.join(words) is the text      *)
(* again, so the empty sequence is the empty (or blank) text.              *)
(***************************************************************************)
\* re.sub(r'(\d+,\s*){10,}', '', text): ten groups or more
MinDigitGroups == 10

\* if len(words) > 20
MinWords == 20

\* for phrase_len in range(3, 8)
MinPhraseLen == 3

MaxPhraseLen == 7

\* if phrase and len(phrase.strip()) > 10
MinPhraseChars == 10

\* if repetitions > 3
MaxRepetitions == 3

\* max_length = 1000
max_length == 1000

\* len("...")
EllipsisLen == 3

\* A whole word w of n characters, lower case, no number.
Word(w, n) == [w |-> w, n |-> n, uc |-> FALSE, num |-> FALSE, dots |-> 0]

\* len(word)
WordChars(t) == t.n + t.dots

RECURSIVE SumChars(_)
SumChars(words) ==
    IF words = << >> THEN 0 ELSE WordChars(Head(words)) + SumChars(Tail(words))

\* len(' '.join(words))
JoinChars(words) ==
    IF words = << >> THEN 0 ELSE SumChars(words) + Len(words) - 1

\* ' '.join(words).lower(), as the sequence of lower-cased words
Lower(words) == [k \in 1..Len(words) |-> [words[k] EXCEPT !.uc = FALSE]]

\* words[i:i+phrase_len], i counted from 0 as in the code
Slice(words, i, phrase_len) == SubSeq(words, i + 1, i + phrase_len)

\* The number of "\d+,\s*" groups the regular expression matches from the
\* head of words on: the leading words that are a number and a comma.
RECURSIVE DigitGroups(_)
DigitGroups(words) ==
    IF words = << >> THEN 0
    ELSE IF Head(words).num /\ Head(words).dots = 0
         THEN 1 + DigitGroups(Tail(words))
         ELSE 0

\* text = re.sub(r'(\d+,\s*){10,}', '', text): every maximal run of ten or
\* more number-comma words goes, with the whitespace after it.
RECURSIVE RemoveDigitRuns(_)
RemoveDigitRuns(words) ==
    IF words = << >> THEN << >>
    ELSE IF DigitGroups(words) >= MinDigitGroups
         THEN RemoveDigitRuns(SubSeq(words, DigitGroups(words) + 1, Len(words)))
         ELSE <<Head(words)>> \o RemoveDigitRuns(Tail(words))

\* The while loop: repetitions of phrase counted from pos on.
RECURSIVE CountRepetitions(_, _, _, _)
CountRepetitions(words, phrase, pos, repetitions) ==
    IF /\ pos + Len(phrase) <= Len(words)
       /\ Lower(phrase) = Lower(Slice(words, pos, Len(phrase)))
    THEN CountRepetitions(words, phrase, pos + Len(phrase), repetitions + 1)
    ELSE repetitions

\* A faulty Matches: the test of the phrase's length in characters left out.
Matches_nochars(words, phrase_len) ==
    {i \in 0..(Len(words) - phrase_len * 3 - 1) :
        CountRepetitions(words, Slice(words, i, phrase_len), i + phrase_len, 1)
            > MaxRepetitions}

\* The positions i of the inner loop at which the phrase is long enough and
\* repeated often enough.
Matches(words, phrase_len) ==
    {i \in 0..(Len(words) - phrase_len * 3 - 1) :
        /\ JoinChars(Slice(words, i, phrase_len)) > MinPhraseChars
        /\ CountRepetitions(words, Slice(words, i, phrase_len), i + phrase_len, 1)
               > MaxRepetitions}

\* The inner loop `for i in range(len(words) - phrase_len * 3)`: at the first
\* match words = words[:i+phrase_len] + words[end_pos:], then break.
ScanLength(words, phrase_len) ==
    IF Matches(words, phrase_len) = {} THEN words
    ELSE LET i == CHOOSE m \in Matches(words, phrase_len) :
                     \A o \in Matches(words, phrase_len) : m <= o
             repetitions == CountRepetitions(words, Slice(words, i, phrase_len),
                                             i + phrase_len, 1)
             end_pos == i + phrase_len + (repetitions - 1) * phrase_len
         IN  SubSeq(words, 1, i + phrase_len) \o SubSeq(words, end_pos + 1, Len(words))

\* The outer loop `for phrase_len in range(3, 8)`, from phrase_len on: the
\* break leaves the inner loop only, the next length scans the spliced words.
RECURSIVE ScanFrom(_, _)
ScanFrom(words, phrase_len) ==
    IF phrase_len > MaxPhraseLen THEN words
    ELSE ScanFrom(ScanLength(words, phrase_len), phrase_len + 1)

\* if len(words) > 20: the two loops (the test is made once, before them)
CollapseRepetitions(words) ==
    IF Len(words) > MinWords THEN ScanFrom(words, MinPhraseLen) ELSE words

\* text[:k] within one word t: its first k characters.
CutWord(t, k) ==
    IF t.n >= k THEN [t EXCEPT !.n = k, !.dots = 0]
    ELSE [t EXCEPT !.dots = k - t.n]

\* word + "..."
AddEllipsis(t) == [t EXCEPT !.dots = @ + EllipsisLen]

\* The words wholly inside text[:max_length].rsplit(' ', 1)[0]: the j for
\* which the space after word j is among the first max_length characters.
WholeWordsKept(words) ==
    {j \in 1..Len(words) : JoinChars(SubSeq(words, 1, j)) <= max_length - 1}

\* if len(text) > max_length: text = text[:max_length].rsplit(' ', 1)[0] + "..."
\* Without a space among the first max_length characters rsplit returns all
\* of them, the first word cut where they end.
Truncate(words) ==
    IF JoinChars(words) <= max_length THEN words
    ELSE IF WholeWordsKept(words) = {}
         THEN <<AddEllipsis(CutWord(words[1], max_length))>>
         ELSE LET j == CHOOSE m \in WholeWordsKept(words) :
                          \A o \in WholeWordsKept(words) : o <= m
              IN  SubSeq(words, 1, j - 1) \o <<AddEllipsis(words[j])>>

\* clean_transcription_text(text), text given and returned as its words.
CleanText(words) == Truncate(CollapseRepetitions(RemoveDigitRuns(words)))

(***************************************************************************)
(* The sanitizer specification: a text is drawn from the families below    *)
(* and clean_transcription_text is applied to it, then to its own result.  *)
(***************************************************************************)
\* A repeated phrase occurs up to MaxReps times in a row.
MaxReps == 5

\* Up to MaxPad words (or MinWords + 1 words) before and after it.
MaxPad == 2

\* Up to MaxLongWords long words in a long text.
MaxLongWords == 11

\* The sanitizer is applied MaxPasses times.
MaxPasses == 2

PadSizes == (0..MaxPad) \cup {MinWords + 1}

\* A phrase of L different words of n characters each.
Phrase(L, n) == [j \in 1..L |-> Word(j, n)]

\* The same phrase with upper-case letters in every word.
Upper(words) == [k \in 1..Len(words) |-> [words[k] EXCEPT !.uc = TRUE]]

\* phrase repeated k times in a row.
Rep(phrase, k) ==
    [j \in 1..(k * Len(phrase)) |-> phrase[((j - 1) % Len(phrase)) + 1]]

\* count words of n characters, all different and none of them in a phrase.
Pad(from, count, n) == [j \in 1..count |-> Word(100 + from + j, n)]

\* A second phrase of L words of 5 characters, four times in a row.
SecondRun(L) == Rep([j \in 1..L |-> Word(50 + j, 5)], MaxRepetitions + 1)

\* Ordinary speech around a phrase repeated k times, with a second run of
\* another phrase before or after it or without one, possibly followed by
\* long words.
RunTexts ==
    {Pad(0, pre, 5)
        \o (IF second = "before" THEN SecondRun(L) ELSE << >>)
        \o Rep(Phrase(L, n), k)
        \o (IF second = "after" THEN SecondRun(L) ELSE << >>)
        \o Pad(pre, post[1], post[2]) :
        pre \in PadSizes,
        L \in 1..MaxPhraseLen,
        n \in {1, 2, 5},
        k \in MaxRepetitions..MaxReps,
        second \in {"none", "before", "after"},
        post \in {<<c, 5>> : c \in PadSizes} \cup {<<MaxLongWords, 99>>}}

\* A phrase said five times, every other time capitalised.
CapsTexts ==
    {Pad(0, pre, 5) \o Phrase(L, 5) \o Upper(Phrase(L, 5)) \o Phrase(L, 5)
        \o Upper(Phrase(L, 5)) \o Phrase(L, 5) \o Pad(pre, post, 5) :
        pre \in PadSizes, post \in PadSizes, L \in MinPhraseLen..MaxPhraseLen}

\* From 1 to MaxLongWords different words of n characters each.
LongTexts ==
    {[j \in 1..k |-> Word(200 + j, n)] :
        k \in 1..MaxLongWords, n \in {99, 100, 499, 999, 1000, 1001}}

\* The number d followed by a comma ("7,", "11,").
NumWord(d) == [w |-> d, n |-> IF d < 10 THEN 2 ELSE 3,
               uc |-> FALSE, num |-> TRUE, dots |-> 0]

\* Runs of 9 to 11 numbers (one number, two in turn, or all different)
\* inside speech, after a short phrase said five times or without one.
NumberTexts ==
    {Pad(0, pre, 5) \o Rep(Phrase(2, 1), k)
        \o [j \in 1..r |-> NumWord((j % d) + 1)] \o Pad(pre, post, 5) :
        pre \in 0..1, post \in 0..1, k \in {0, 5},
        d \in {1, 2, MinDigitGroups + 1},
        r \in (MinDigitGroups - 1)..(MinDigitGroups + 1)}

\* Two runs of different phrase lengths: a phrase of L words (4 to 7) and a
\* phrase of 3 words, four times each, in either order.
TwoLengthTexts ==
    {Pad(0, pre, 5)
        \o (IF shortFirst THEN SecondRun(MinPhraseLen) ELSE << >>)
        \o Rep(Phrase(L, 5), MaxRepetitions + 1)
        \o (IF shortFirst THEN << >> ELSE SecondRun(MinPhraseLen))
        \o Pad(pre, post, 5) :
        pre \in PadSizes, post \in PadSizes,
        L \in (MinPhraseLen + 1)..MaxPhraseLen, shortFirst \in BOOLEAN}

Texts ==
    RunTexts \cup CapsTexts \cup LongTexts \cup NumberTexts \cup TwoLengthTexts
        \cup {<< >>}

\* text = self.clean_transcription_text(text)
clean_transcription_text ==
    /\ Len(texts) <= MaxPasses
    /\ texts' = Append(texts, CleanText(texts[Len(texts)]))
    /\ UNCHANGED <<lifeVars, connVars, readerVars, loopVars>>

CleanSpecInit ==
    /\ pc = [p \in Procs |-> IF p = 1 THEN "accept" ELSE "new"]
    /\ pid = [p \in Procs |-> NoFile]
    /\ running = [p \in Procs |-> p = 1]
    /\ socket = [p \in Procs |-> IF p = 1 THEN "open" ELSE "none"]
    /\ model = [p \in Procs |-> p = 1]
    /\ PID_FILE = 1
    /\ SOCKET_PATH = 1
    /\ shutdownSig = [p \in Procs |-> "none"]
    /\ impl = "standalone"
    /\ ConnInit
    /\ ReaderInit
    /\ AcceptInit
    /\ \E t \in Texts : texts = <<t>>

CleanNext == clean_transcription_text

CleanSpec == CleanSpecInit /\ [][CleanNext]_vars

(***************************************************************************)
(* Lifecycle claims (checked under Spec)                                   *)
(***************************************************************************)
\* A server process that is bound and listening.
Serving(p) == Alive(p) /\ socket[p] = "open"

\* C2: at most one server process exists per socket path: in every reachable
\* state, whatever the interleaving of `start` invocations, no two live
\* processes are bound and serving at the same time.
C2_AtMostOneServer == Cardinality({p \in Procs : Serving(p)}) <= 1

\* C5: `stop` with a PID file present signals the recorded PID and removes the
\* PID file, so the file is absent when `stop` returns, whether the recorded
\* process was alive or dead; with no PID file it changes nothing.
C5_StopRemovesPidFile ==
    [][\A p \in Procs :
          (pc[p] # "stop_returned" /\ pc'[p] = "stop_returned") =>
              IF pc[p] = "stop_exists"
              THEN PID_FILE' = PID_FILE /\ SOCKET_PATH' = SOCKET_PATH
              ELSE PID_FILE' = NoFile]_vars

\* C6: a running server that received a termination signal (SIGINT, or the
\* SIGTERM that `stop` sends) has, once it has ended, gone through stop_server:
\* running is false, the listening socket is closed, and neither the socket
\* path nor the PID file it wrote is left behind.
C6_SignalShutdownCleans ==
    \A p \in Procs :
        (shutdownSig[p] # "none" /\ pc[p] \in Ended) =>
            /\ pc[p] = "stopped"
            /\ ~running[p]
            /\ socket[p] = "closed"
            /\ SOCKET_PATH # p
            /\ PID_FILE # p

\* C7: a `start` whose liveness probe finds the recorded process alive is
\* refused: that step loads no model and leaves the PID file and the socket
\* path as they were, and the refused process has never loaded the model,
\* created a socket or set running, and does nothing further.
C7_AlreadyRunningRefused ==
    /\ [][\A p \in Procs :
             /\ (main_start_probe(p) /\ Alive(pid[p])) =>
                    /\ pc'[p] = "refused"
                    /\ PID_FILE' = PID_FILE
                    /\ SOCKET_PATH' = SOCKET_PATH
                    /\ model' = model
             /\ pc[p] = "refused" => pc'[p] = "refused"]_vars
    /\ [](\A p \in Procs :
             pc[p] = "refused" => ~model[p] /\ socket[p] = "none" /\ ~running[p])

\* C7 witness: p was refused while the server recorded in the PID file is
\* alive and running, and the PID file still names that server.
C7_Witness ==
    \E p \in Procs :
        /\ pc[p] = "refused"
        /\ Alive(pid[p])
        /\ running[pid[p]]
        /\ PID_FILE = pid[p]
        /\ SOCKET_PATH = pid[p]

\* A start that read a PID from the PID file and went on: its probe found the
\* recorded process dead.
SawStalePid(p) ==
    pid[p] # NoFile /\ pc[p] \in StartPcs \ {"start_read", "start_probe"}

\* C8: a `start` that found the PID file of a dead process succeeds: once it
\* serves (accept loop), the socket path is bound to its own socket and the
\* PID file holds its own PID.
C8_StaleStartSucceeds ==
    \A p \in Procs :
        (SawStalePid(p) /\ pc[p] = "accept") =>
            /\ model[p]
            /\ socket[p] = "open"
            /\ SOCKET_PATH = p
            /\ PID_FILE = p

(***************************************************************************)
(* Request-handling claims (checked under ServeSpec)                       *)
(***************************************************************************)
\* The handler of c has finished: handle_client returned or raised.
Finished(c) == hpc[c] \in {"returned", "raised"}

\* C1: model invocation is mutually exclusive: at most one handler thread is
\* inside self.model.transcribe at a time.
C1_ModelMutex == Cardinality({c \in Conns : hpc[c] = "in_model"}) <= 1

\* C3 as claimed: every accepted connection whose handler has finished got
\* exactly one response (never zero, never two) and was closed, on every path.
C3_ExactlyOneResponse ==
    \A c \in Conns : Finished(c) => Len(sent[c]) = 1 /\ closed[c]

\* C3 as amended: on every path of handle_client at most one response is
\* written and the connection is closed when the handler finishes, not before;
\* exactly one response is written unless the client has disconnected, in
\* which case the write raises and none is written.
C3_AtMostOneResponse ==
    \A c \in Conns :
        /\ Len(sent[c]) <= 1
        /\ closed[c] <=> Finished(c)
        /\ Finished(c) => (Len(sent[c]) = 1 \/ ~connected[c])

\* C3 witness: a handler that finished and closed its connection without any
\* response, its client having disconnected, next to one that wrote exactly one.
C3_Witness ==
    \E c, d \in Conns :
        /\ Finished(c) /\ closed[c] /\ sent[c] = << >> /\ ~connected[c]
        /\ Finished(d) /\ closed[d] /\ Len(sent[d]) = 1

\* C4: no exception ever escapes handle_client: whatever fails, the handler
\* returns normally.
C4_NoExceptionEscapes == \A c \in Conns : hpc[c] # "raised"

\* C9: ping and info never wait on the model: whatever the other handlers are
\* doing (any number of them inside the model call), a new connection can be
\* accepted, a connection just accepted can be read, and a ping or info
\* handler can take its next step, up to its response and close; it never
\* enters the model call itself.
C9_PingInfoNeverWait ==
    \A c \in Conns :
        /\ hpc[c] = "idle" => ENABLED accept(c)
        /\ hpc[c] = "recv" => ENABLED handle_client_recv(c)
        /\ (req[c].action \in {"ping", "info"} /\ ~Finished(c)) =>
               /\ ENABLED handle_client(c)
               /\ hpc[c] # "in_model"
               /\ ~invoked[c]

\* C9 witness: a ping answered and closed while another handler is still
\* inside the model call.
C9_Witness ==
    \E c, d \in Conns :
        /\ hpc[d] = "in_model"
        /\ req[c].action = "ping"
        /\ hpc[c] = "returned"
        /\ sent[c] = <<Ready>>
        /\ closed[c]

\* A transcribe request for an existing file under the size threshold.
SmallRequest(r) ==
    /\ r.kind = "object"
    /\ r.action = "transcribe"
    /\ r.file \in Files
    /\ Exists(r.file)
    /\ Size(r.file) < 1000

\* C10: for a transcribe request whose file exists and is smaller than 1000
\* bytes the result is exactly {text: "", duration: 0}, that is what is
\* written to the client, and the model is not invoked.
C10_SmallFileShortCircuit ==
    \A c \in Conns :
        SmallRequest(req[c]) =>
            /\ resp[c] = [text |-> "", duration |-> 0]
            /\ ~invoked[c]
            /\ hpc[c] # "in_model"
            /\ \A i \in 1..Len(sent[c]) : sent[c][i] = [text |-> "", duration |-> 0]

\* C10 witness: a 999-byte file answered with the empty result, no model call.
C10_Witness ==
    \E c \in Conns :
        /\ req[c].action = "transcribe"
        /\ req[c].file = "small.wav"
        /\ hpc[c] = "returned"
        /\ sent[c] = <<SmallResult>>
        /\ ~invoked[c]

\* A transcribe request that names no file, or a file that does not exist.
MissingFileRequest(r) ==
    /\ r.kind = "object"
    /\ r.action = "transcribe"
    /\ (r.file = "none" \/ ~Exists(r.file))

\* A response of the success shape / of the error shape.
HasText(x) == "text" \in DOMAIN x

HasError(x) == "error" \in DOMAIN x

\* C11: a transcribe request whose file does not exist (or that has no file
\* field) is answered with an {error} object: the result transcribe_file
\* returns and everything written to the client have `error` and no `text`,
\* a client still there when the handler finishes got exactly that one
\* response, and the model is not invoked.  No response of any request has
\* both `text` and `error`.
C11_MissingFileIsError ==
    /\ \A c \in Conns :
          MissingFileRequest(req[c]) =>
              /\ ~invoked[c]
              /\ hpc[c] # "in_model"
              /\ ~HasText(resp[c])
              /\ req[c].file # "none" => resp[c] = NotFound
              /\ \A i \in 1..Len(sent[c]) :
                     HasError(sent[c][i]) /\ ~HasText(sent[c][i])
              /\ (Finished(c) /\ connected[c]) => Len(sent[c]) = 1
    /\ \A c \in Conns :
          /\ ~(HasText(resp[c]) /\ HasError(resp[c]))
          /\ \A i \in 1..Len(sent[c]) :
                 ~(HasText(sent[c][i]) /\ HasError(sent[c][i]))

\* C11 witness: a request for a missing file answered with "Audio file not
\* found", and one without a file field answered with the exception's error.
C11_Witness ==
    \E c, d \in Conns :
        /\ req[c].action = "transcribe" /\ req[c].file = "missing.wav"
        /\ hpc[c] = "returned" /\ sent[c] = <<NotFound>> /\ ~invoked[c]
        /\ req[d].action = "transcribe" /\ req[d].file = "none"
        /\ hpc[d] = "returned" /\ sent[d] = <<ErrorResponse>> /\ ~invoked[d]

\* A payload that does not parse as a JSON object, or whose action is none of
\* transcribe, ping, info.
Malformed(r) ==
    \/ r.kind \in {"notjson", "notobject"}
    \/ r.kind = "object" /\ r.action \notin {"transcribe", "ping", "info"}

\* C12 as claimed: every malformed or unknown request receives an {error}
\* response and its connection is closed.
C12_MalformedGetsError ==
    \A c \in Conns :
        (Malformed(req[c]) /\ Finished(c)) =>
            /\ closed[c]
            /\ Len(sent[c]) = 1
            /\ HasError(sent[c][1])

\* C12: a malformed or unknown request never reaches the model; whatever is
\* written to its client is an {error} object, at most one; when the handler
\* has finished the connection is closed and a client that is still there has
\* received exactly one error response (to a client that has disconnected the
\* write raises, and nothing is received).  No step of its handler changes
\* the server's running flag, socket, PID file or socket path.
C12_MalformedErrorUnlessGone ==
    /\ [](\A c \in Conns :
            Malformed(req[c]) =>
                /\ ~invoked[c]
                /\ hpc[c] # "in_model"
                /\ Len(sent[c]) <= 1
                /\ \A i \in 1..Len(sent[c]) :
                       HasError(sent[c][i]) /\ ~HasText(sent[c][i])
                /\ Finished(c) => closed[c] /\ (connected[c] => Len(sent[c]) = 1))
    /\ [][\A c \in Conns :
            (Malformed(req'[c]) /\ hpc'[c] # hpc[c]) =>
                UNCHANGED <<running, socket, PID_FILE, SOCKET_PATH, pc>>]_vars

\* C12 witness: unparsable JSON answered with the exception's error, and an
\* unknown action answered with "Unknown action", both closed.
C12_Witness ==
    \E c, d \in Conns :
        /\ req[c].kind = "notjson"
        /\ hpc[c] = "returned" /\ sent[c] = <<ErrorResponse>> /\ closed[c]
        /\ req[d].kind = "object" /\ req[d].action = "bogus"
        /\ hpc[d] = "returned" /\ sent[d] = <<UnknownAction>> /\ closed[d]

\* C13: an info request is answered with the metadata object {model, device,
\* compute_type}, never with an {error}, and without invoking the model, in
\* each server implementation.
C13_InfoAnswered ==
    \A c \in Conns :
        (req[c].kind = "object" /\ req[c].action = "info") =>
            /\ ~invoked[c]
            /\ hpc[c] # "in_model"
            /\ DOMAIN resp[c] = {"model", "device", "compute_type"}
            /\ \A i \in 1..Len(sent[c]) :
                   /\ DOMAIN sent[c][i] = {"model", "device", "compute_type"}
                   /\ ~HasError(sent[c][i])

\* C19: model-load failure is fatal and precedes serving.  A process whose
\* model did not load exits with status 1 (the only way initialize_model's
\* failure ends) having bound no socket, written no PID file and never run the
\* accept loop; and a process binds its socket only with the model loaded,
\* writes the PID file only with the model loaded and the socket bound and
\* listening, and sets running only after that write.
C19_ModelLoadPrecedesServing ==
    /\ [](\A p \in Procs :
            /\ pc[p] = "exit_fail" => ~model[p]
            /\ ~model[p] =>
                  /\ socket[p] = "none"
                  /\ ~running[p]
                  /\ PID_FILE # p
                  /\ SOCKET_PATH # p
                  /\ pc[p] \notin {"ss_bind", "ss_writepid", "ss_run", "accept"}
            /\ running[p] => model[p] /\ socket[p] = "open")
    /\ [][\A p \in Procs :
            /\ (socket'[p] = "open" /\ socket[p] # "open") => model[p]
            /\ (PID_FILE' = p /\ PID_FILE # p) => model[p] /\ socket[p] = "open"
            /\ (running'[p] /\ ~running[p]) =>
                  model[p] /\ socket[p] = "open" /\ pc[p] = "ss_run"]_vars

\* C19 witness: one process has exited on a failed model load while another,
\* whose model loaded, has written the PID file and is running.
C19_Witness ==
    \E p, q \in Procs :
        /\ pc[p] = "exit_fail" /\ ~model[p] /\ socket[p] = "none"
        /\ pc[q] = "accept" /\ running[q] /\ model[q] /\ PID_FILE = q

\* Positions of a process inside its second call of stop_server.
InSecondStop == {"stopped", "again_unlink_sock", "again_unlink_pid"}

\* C18: stop is idempotent and terminal: once a process has reached `stopped`
\* it never enters it again, and a second call of stop_server changes
\* nothing: the run flag stays false, the call returns without an error, and
\* no file (socket path, PID file) is removed, whoever it belongs to.
C18_StopIdempotent ==
    [][\A p \in Procs :
          /\ (pc[p] \in InSecondStop \cup {"stopped_again"} /\ pc'[p] = "stopped") =>
                 pc[p] = "stopped"
          /\ (pc[p] \in InSecondStop /\ pc'[p] # pc[p]) =>
                 /\ pc'[p] \in InSecondStop \cup {"stopped_again"}
                 /\ ~running'[p]
                 /\ running' = running
                 /\ PID_FILE' = PID_FILE
                 /\ SOCKET_PATH' = SOCKET_PATH]_vars

\* C20 as claimed: whenever the status file holds a record, the reader
\* reports idle if its timestamp is more than 5 seconds old, whatever state
\* it stores, and its stored state otherwise.
C20_StaleIsIdle ==
    (status # "none" /\ status_file.kind = "object" /\ status_file.state # "none") =>
        status = IF now - status_file.timestamp > 5 THEN "idle"
                 ELSE status_file.state

\* C20: with the server running and no recording marker, a record more than
\* 5 seconds old is reported as idle whatever state it stores, and a record
\* within 5 seconds is reported as its stored state (idle if it stores none);
\* without a live server the reader reports offline, and with the recording
\* marker it reports recording, whatever the record's age and state.
C20_StaleIsIdleWhenServing ==
    (status # "none" /\ status_file.kind = "object") =>
        status = IF PID_FILE = NoFile \/ ~Alive(PID_FILE) THEN "offline"
                 ELSE IF recording_file THEN "recording"
                 ELSE IF now - status_file.timestamp > 5 THEN "idle"
                 ELSE IF status_file.state = "none" THEN "idle"
                 ELSE status_file.state

\* C20 witness: a record storing `processing`, 6 seconds old, read as idle
\* with the server running and nothing being recorded.
C20_Witness ==
    /\ status = "idle"
    /\ status_file.kind = "object"
    /\ status_file.state = "processing"
    /\ status_file.timestamp > 0
    /\ now - status_file.timestamp = 6
    /\ Alive(PID_FILE)
    /\ ~recording_file

\* C14: the sanitizer is idempotent: applied to its own result it returns
\* that result unchanged.
C14_Idempotent == Len(texts) = 3 => texts[3] = texts[2]

\* words holds, from position p on, k copies in a row of the L words at p.
IsRun(words, p, L, k) ==
    /\ p + k * L - 1 <= Len(words)
    /\ \A j \in 0..(k * L - 1) : words[p + j] = words[p + (j % L)]

\* Exactly k copies: no further copy follows, none comes before.
ExactRun(words, p, L, k) ==
    /\ IsRun(words, p, L, k)
    /\ ~IsRun(words, p, L, k + 1)
    /\ ~(p > L /\ IsRun(words, p - L, L, 2))

\* C15: whenever the text contains a phrase of L words (4 <= L <= 7, more
\* than 10 characters) repeated 5 consecutive times, at any position and in
\* any surroundings, the sanitizer's output has that phrase at that position
\* once: it is there and no second copy follows it.
C15_RepetitionLaw ==
    Len(texts) >= 2 =>
        \A L \in 4..7 : \A p \in 1..Len(texts[1]) :
            (/\ ExactRun(texts[1], p, L, 5)
             /\ JoinChars(SubSeq(texts[1], p, p + L - 1)) > 10) =>
                /\ p + L - 1 <= Len(texts[2])
                /\ SubSeq(texts[2], p, p + L - 1) = SubSeq(texts[1], p, p + L - 1)
                /\ ~IsRun(texts[2], p, L, 2)

\* Apart from the k copies of the L different words at p, no word of the text
\* occurs twice.
NoOtherRepetition(words, p, L, k) ==
    /\ \A i, j \in 1..L : i # j => words[p + i - 1] # words[p + j - 1]
    /\ \A i \in (1..Len(words)) \ (p..(p + k * L - 1)) :
          \A j \in (1..Len(words)) \ {i} : words[i] # words[j]

\* The text has a phrase of fewer than 10 characters at p, repeated exactly 5
\* consecutive times, and no other repetition.
ShortRunAt(words, p, L) ==
    /\ ExactRun(words, p, L, 5)
    /\ JoinChars(SubSeq(words, p, p + L - 1)) < 10
    /\ NoOtherRepetition(words, p, L, 5)

\* C16 as claimed: a text in which a phrase of fewer than 10 characters is
\* repeated 5 consecutive times, and nothing else is repeated, comes out of
\* the sanitizer with its word sequence unchanged.
C16_ShortPhraseUnchanged ==
    Len(texts) >= 2 =>
        \A L \in 1..7 : \A p \in 1..Len(texts[1]) :
            ShortRunAt(texts[1], p, L) => texts[2] = texts[1]

\* No ten words in a row of the text are numbers followed by a comma.
NoDigitRun(words) ==
    \A i \in 1..Len(words) :
        \E j \in i..(i + 9) : j > Len(words) \/ ~words[j].num

\* C16: a text of at most 1000 characters without a run of ten
\* comma-terminated numbers, in which a phrase of fewer than 10 characters is
\* repeated 5 consecutive times and nothing else is repeated, comes out of
\* the sanitizer with its word sequence unchanged: no window length from 3
\* to 7 collapses it.
C16_ShortPhraseUnchangedUnderCap ==
    Len(texts) >= 2 =>
        \A L \in 1..7 : \A p \in 1..Len(texts[1]) :
            (/\ ShortRunAt(texts[1], p, L)
             /\ NoDigitRun(texts[1])
             /\ JoinChars(texts[1]) <= max_length) =>
                /\ texts[2] = texts[1]
                /\ \A phrase_len \in 3..7 :
                       ScanLength(texts[1], phrase_len) = texts[1]

\* C16 witness: a phrase of three 2-character words (8 characters) said five
\* times inside a text of more than 20 words, returned as it was.
C16_Witness ==
    /\ Len(texts) >= 2
    /\ Len(texts[1]) > 20
    /\ \E p \in 1..Len(texts[1]) :
          /\ ShortRunAt(texts[1], p, 3)
          /\ JoinChars(SubSeq(texts[1], p, p + 2)) = 8
    /\ texts[2] = texts[1]

\* The text as it is before the length cap is applied.
BeforeCap(words) == CollapseRepetitions(RemoveDigitRuns(words))

\* C17: a cleaned text longer than 1000 characters is cut at a whole-word
\* boundary (the output is some of its leading words, whole, the last one
\* followed by the marker), ends with "...", and is at most 1000 + 3
\* characters long; a cleaned text of at most 1000 characters is returned
\* as it is.
C17_LengthCap ==
    Len(texts) >= 2 =>
        LET cleaned == BeforeCap(texts[1])
            out == texts[2]
        IN  IF JoinChars(cleaned) > 1000
            THEN /\ out # << >>
                 /\ Len(out) <= Len(cleaned)
                 /\ out[Len(out)].dots = cleaned[Len(out)].dots + 3
                 /\ [out EXCEPT ![Len(out)].dots = @ - 3] = SubSeq(cleaned, 1, Len(out))
                 /\ JoinChars(out) <= 1000 + 3
            ELSE out = cleaned

\* The word with its letters in lower case.
LowerWord(t) == [t EXCEPT !.uc = FALSE]

\* words has, somewhere, a phrase of 3 to 7 words and more than 10 characters
\* followed by 3 or more copies of itself (compared case-insensitively).
HasExcessRun(words) ==
    \E L \in 3..7 : \E p \in 1..Len(words) :
        /\ p + 4 * L - 1 <= Len(words)
        /\ JoinChars(SubSeq(words, p, p + L - 1)) > 10
        /\ \A j \in 0..(4 * L - 1) :
               LowerWord(words[p + j]) = LowerWord(words[p + (j % L)])

\* C21: the sanitizer's output contains no eligible phrase (3 to 7 words,
\* more than 10 characters, compared case-insensitively) repeated more than
\* 3 consecutive times, whatever the number of runs and the word count of
\* the input.
C21_NoExcessRunLeft == Len(texts) >= 2 => ~HasExcessRun(texts[2])

\* From position p on, words holds k copies in a row of the L words at p,
\* compared case-insensitively.
IsRunAnyCase(words, p, L, k) ==
    /\ p + k * L - 1 <= Len(words)
    /\ \A j \in 0..(k * L - 1) :
           LowerWord(words[p + j]) = LowerWord(words[p + (j % L)])

\* The candidate collapses of words: window length L and start p of an
\* eligible phrase repeated more than 3 times.
Candidates(words) ==
    {c \in (3..7) \X (1..Len(words)) :
        /\ IsRunAnyCase(words, c[2], c[1], 4)
        /\ JoinChars(SubSeq(words, c[2], c[2] + c[1] - 1)) > 10}

\* The candidate with the smallest window length and, at that length, the
\* leftmost start.
FirstCandidate(words) ==
    CHOOSE c \in Candidates(words) :
        \A d \in Candidates(words) :
            c[1] < d[1] \/ (c[1] = d[1] /\ c[2] <= d[2])

\* words with the collapse of candidate c performed: the first copy kept,
\* the copies that follow it deleted.
Collapsed(words, c) ==
    LET L == c[1]
        p == c[2]
        k == CHOOSE n \in 4..Len(words) :
                 IsRunAnyCase(words, p, L, n) /\ ~IsRunAnyCase(words, p, L, n + 1)
    IN  SubSeq(words, 1, p + L - 1) \o SubSeq(words, p + k * L, Len(words))

\* C22: when a text (under the length cap, without digit runs) has more than
\* one candidate collapse, the sanitizer performs the one with the smallest
\* window length and the leftmost start at that length, and no other.
C22_GreedyFirstMatch ==
    (/\ Len(texts) >= 2
     /\ NoDigitRun(texts[1])
     /\ JoinChars(texts[1]) <= max_length
     /\ Cardinality(Candidates(texts[1])) > 1) =>
        texts[2] = Collapsed(texts[1], FirstCandidate(texts[1]))


\* The except clause of p's accept loop runs in this step.
ExceptRuns(p) == pc[p] = "accept" /\ accept_err'[p] # accept_err[p]

\* C23: while running is true, an exception from accept() or from the
\* dispatch of a connection is logged and leaves the process in its accept
\* loop, still running and with its listening socket as it was; once running
\* is false and the listening socket is closed, the exception is swallowed
\* (not logged) and the loop ends (start_server returns).
C23_AcceptLoopResilience ==
    [][\A p \in Procs :
          /\ (ExceptRuns(p) /\ running[p]) =>
                /\ accept_err'[p] = accept_err[p] \cup {"logged"}
                /\ pc'[p] = "accept"
                /\ running'[p]
                /\ socket'[p] = socket[p]
          /\ (ExceptRuns(p) /\ ~running[p] /\ socket[p] = "closed") =>
                /\ accept_err'[p] = accept_err[p] \cup {"swallowed"}
                /\ pc'[p] # "accept"]_vars

\* A loop that logged an exception while running, accepted a connection
\* and later, stopped, swallowed the exception of the closed socket and ended.
C23_Witness ==
    \E p \in Procs :
        /\ accept_err[p] = {"logged", "swallowed"}
        /\ ~running[p]
        /\ socket[p] = "closed"
        /\ pc[p] = "stopped"
        /\ \E c \in Conns : hpc[c] = "recv"


\* Process q is a live server bound to the socket file now at the socket path.
BoundByLive(q) == q \in Procs /\ Alive(q) /\ socket[q] = "open" /\ SOCKET_PATH = q

\* The PID file records the live process q.
RecordsLive(q) == q \in Procs /\ Alive(q) /\ PID_FILE = q

\* C24: no step of stop_server run by process p unlinks a socket path that a
\* different live server process is bound to, nor a PID file that records a
\* different live process's PID.
C24_StopRemovesOnlyOwn ==
    [][\A p \in Procs : \A q \in Procs \ {p} :
          /\ (pc[p] = "st_unlink_sock" /\ pc'[p] \in {"st_unlink_pid", "stopped"}) =>
                ~BoundByLive(q)
          /\ (pc[p] = "st_unlink_pid" /\ pc'[p] = "stopped") =>
                ~RecordsLive(q)]_vars


\* The keys of self.states, which get_waybar_output indexes with the status.
states == {"idle", "recording", "processing", "offline", "error"}

\* C25: whatever the PID file, the recording marker and the status file
\* hold (any stored state, any timestamp, missing or malformed file), what
\* get_current_status returns is a key of self.states.
C25_StatusDisplayable == status # "none" => status \in states

====
